---- MODULE Spec2Model ----
(***************************************************************************)
(* Model of bell_curve_test7.py: a Streamlit script that fetches a sheet,  *)
(* sorts it by date, lets the user pick a row through a text label,        *)
(* filters the rows up to the picked date, computes bins / percentile /    *)
(* percentile thresholds / nearest rows, renders, sleeps and reruns.       *)
(*                                                                         *)
(* Numbers.  NetMargin values are exact integers in thousandths (0.001).   *)
(* Timestamps are integers counted in ticks, TicksPerDay ticks to a        *)
(* calendar day, so a Date may carry a time of day.  np.percentile         *)
(* results are kept exactly, scaled by 100 (hundred-thousandths).          *)
(***************************************************************************)
EXTENDS Integers, Sequences, FiniteSets, TLC

\* ------------------------------------------------------------- bounds
MaxRows == 3
MaxN == 17
MaxLen == 3

\* ------------------------------------------------- program constants
SliderMin == 1
SliderMax == 60
SliderDefault == 10
TicksPerDay == 2
UnitsPerCent == 10

percentiles == <<50, 80, 90, 95, 99>>

\* ------------------------------------------------------ input domains
Values == {-15, 4, 20}
\* Day 0 at midnight, day 0 at noon, day 1 at midnight.
Ticks == {0, 1, 2}
\* The slider starts at its default; the user moves it to either end.
SliderChoices == {SliderMin, SliderMax}

RowSet == [Date : Ticks, NetMargin : Values]
RowSeqs == UNION {[1..n -> RowSet] : n \in 0..MaxRows}

\* A fetched sheet: which required columns it has, whether every cell of the
\* two columns coerces (astype(float) / to_datetime), and its rows.
Tables ==
    {[hasNetMargin |-> TRUE, hasDate |-> TRUE, coercible |-> TRUE, rows |-> r] : r \in RowSeqs}
    \cup {[hasNetMargin |-> a, hasDate |-> b, coercible |-> TRUE, rows |-> <<>>] :
            a \in BOOLEAN, b \in BOOLEAN}
    \cup {[hasNetMargin |-> TRUE, hasDate |-> TRUE, coercible |-> FALSE, rows |-> <<>>]}

NoData == [hasNetMargin |-> FALSE, hasDate |-> FALSE, coercible |-> FALSE, rows |-> <<>>]
NoLabel == [date |-> -1, value |-> 0]
NoPercentile == [num |-> 0, den |-> 1]
NoStd == [nan |-> FALSE, ss |-> 0]

\* --------------------------------------------------------- arithmetic
Abs(x) == IF x < 0 THEN -x ELSE x

RECURSIVE Pow2(_)
Pow2(k) == IF k = 0 THEN 1 ELSE 2 * Pow2(k - 1)

RECURSIVE SeqSum(_)
SeqSum(s) == IF s = <<>> THEN 0 ELSE Head(s) + SeqSum(Tail(s))

RECURSIVE Insert(_, _)
Insert(x, s) ==
    IF s = <<>> THEN <<x>>
    ELSE IF x <= Head(s) THEN <<x>> \o s
    ELSE <<Head(s)>> \o Insert(x, Tail(s))

RECURSIVE SortValues(_)
SortValues(s) == IF s = <<>> THEN <<>> ELSE Insert(Head(s), SortValues(Tail(s)))

\* ---------------------------------------------------- pure functions
\* np.ceil(np.log2(n) + 1): the smallest k with 2^(k-1) >= n, found by
\* counting up as log2 grows.
RECURSIVE CeilLog2From(_, _)
CeilLog2From(n, k) == IF Pow2(k) >= n THEN k ELSE CeilLog2From(n, k + 1)

\* len(data) = 0 gives log2 = -inf and int(-inf) raises OverflowError: the
\* caller tests BinsOverflow first.
BinsOverflow(data) == Len(data) = 0

calculate_bins_floor(data) ==
    LET n == Len(data) IN CeilLog2From(n, 0)

calculate_bins(data) ==
    LET n == Len(data) IN CeilLog2From(n, 0) + 1

\* data[data <= value].count() / len(data) * 100, kept as the exact
\* fraction num/den.
calculate_percentile_strict(value, data) ==
    LET rank == Len(SelectSeq(data, LAMBDA x : x < value))
    IN  [num |-> rank * 100, den |-> Len(data)]

calculate_percentile(value, data) ==
    LET rank == Len(SelectSeq(data, LAMBDA x : x <= value))
    IN  [num |-> rank * 100, den |-> Len(data)]

\* np.percentile(values, p), linear interpolation between the order
\* statistics around position p/100*(n-1); the result is scaled by 100.
np_percentile(values, p) ==
    LET sorted == SortValues(values)
        n == Len(values)
        pos == p * (n - 1)
        lo == pos \div 100
        fr == pos % 100
        hi == IF lo + 1 < n THEN lo + 1 ELSE lo
    IN  100 * sorted[lo + 1] + fr * (sorted[hi + 1] - sorted[lo + 1])

\* (data["NetMargin"] - percentile_value).abs(), scaled by 100.
AbsDiff(row, target) == Abs(100 * row.NetMargin - target)

\* Series.idxmin(): the index LABEL of the first row with the least
\* absolute difference.
idxmin(target, data) ==
    LET best == CHOOSE i \in 1..Len(data) :
                    /\ \A j \in 1..Len(data) : AbsDiff(data[i], target) <= AbsDiff(data[j], target)
                    /\ \A j \in 1..(i - 1) : AbsDiff(data[j], target) > AbsDiff(data[i], target)
    IN  data[best].idx

\* data.iloc[k] takes k as a 0-based POSITION; it raises IndexError when
\* k >= len(data).
IlocRaises(target, data) == idxmin(target, data) >= Len(data)

find_nearest_value_and_date(target, data) ==
    LET nearest_value == data[idxmin(target, data) + 1]
    IN  [NetMargin |-> nearest_value.NetMargin, Date |-> nearest_value.Date]

\* ------------------------------------------------- label round trip
DayOf(ts) == ts \div TicksPerDay

\* dt.strftime("%Y-%m-%d"): the calendar day, the time of day is dropped.
Strftime(ts) == DayOf(ts)

\* pd.to_datetime("YYYY-MM-DD"): midnight of that day.
ToDatetime(day) == day * TicksPerDay

\* Series.round(2): to the nearest hundredth, halves to the even hundredth.
\* The result is counted in hundredths.
Round2(v) ==
    LET q == v \div UnitsPerCent
        r == v % UnitsPerCent
    IN  IF 2 * r < UnitsPerCent THEN q
        ELSE IF 2 * r > UnitsPerCent THEN q + 1
        ELSE IF q % 2 = 0 THEN q ELSE q + 1

\* float(text) of a value printed with two decimals, back in thousandths.
ParseFloat(h) == h * UnitsPerCent

Dropdown(row) == [date |-> Strftime(row.Date), value |-> Round2(row.NetMargin)]

\* ------------------------------------------------------------- sorting
\* data.sort_values(by="Date"): the rows in ascending Date, each keeping its
\* original index label (0-based position in the sheet).  The default sort
\* kind is not stable, so rows of equal Date may come in any order.
Indexed(rows) ==
    [i \in 1..Len(rows) |-> [idx |-> i - 1, Date |-> rows[i].Date, NetMargin |-> rows[i].NetMargin]]

SortedByDate(rows) ==
    LET n == Len(rows)
        perms == {f \in [1..n -> 1..n] : \A i, j \in 1..n : i # j => f[i] # f[j]}
        ix == Indexed(rows)
    IN  {[i \in 1..n |-> ix[f[i]]] : f \in
            {g \in perms : \A i \in 1..(n - 1) : ix[g[i]].Date <= ix[g[i + 1]].Date}}

NetMarginOf(data) == [i \in 1..Len(data) |-> data[i].NetMargin]

\* Series.std() (ddof = 1): NaN for fewer than two rows; otherwise
\* n*(n-1)*variance = n*sum(x^2) - (sum x)^2 stands for the deviation.
SeriesStd(values) ==
    LET n == Len(values)
        sq == [i \in 1..n |-> values[i] * values[i]]
    IN  IF n <= 1 THEN [nan |-> TRUE, ss |-> 0]
        ELSE [nan |-> FALSE, ss |-> n * SeqSum(sq) - SeqSum(values) * SeqSum(values)]

\* --------------------------------------------------------------- state
VARIABLES
    pc,                        \* where the script run is
    refresh_interval,          \* the slider's value (seconds)
    data,                      \* the sheet fetched in this run
    combined_data,             \* rows sorted by Date, with their index labels
    selected_pos,              \* position of the option picked in the selectbox
    selected_row,              \* the picked label
    selected_value,            \* value parsed back from the label
    selected_date,             \* timestamp parsed back from the label
    filtered_data,             \* rows with Date <= selected_date
    bins,
    percentile,
    percentile_values,         \* np.percentile per entry of percentiles, x100
    nearest_values_and_dates,  \* per entry of percentiles
    std_dev,
    outputs,                   \* what this run has shown to the user
    error,                     \* the error or exception that ended this run
    slept,                     \* seconds waited by time.sleep in this run
    trace,                     \* the steps this run has taken, in order
    fn_name,                   \* function applied on its own (FnSpec)
    fn_data,
    fn_value,
    fn_result

pipeline_vars ==
    <<pc, refresh_interval, data, combined_data, selected_pos, selected_row, selected_value,
      selected_date, filtered_data, bins, percentile, percentile_values,
      nearest_values_and_dates, std_dev, outputs, error, slept, trace>>

fn_vars == <<fn_name, fn_data, fn_value, fn_result>>

vars == <<pipeline_vars, fn_vars>>

selection_vars == <<selected_pos, selected_row, selected_value, selected_date>>

statistics_vars == <<bins, percentile, percentile_values, nearest_values_and_dates>>

\* The locals of main() before anything has run.
FreshRun ==
    /\ data = NoData
    /\ combined_data = <<>>
    /\ selected_pos = 0
    /\ selected_row = NoLabel
    /\ selected_value = 0
    /\ selected_date = 0
    /\ filtered_data = <<>>
    /\ bins = 0
    /\ percentile = NoPercentile
    /\ percentile_values = <<>>
    /\ nearest_values_and_dates = <<>>
    /\ std_dev = NoStd
    /\ outputs = {}
    /\ error = "none"
    /\ slept = 0
    /\ trace = <<>>

\* A new run of main(): every local is gone.
NewRun ==
    /\ data' = NoData
    /\ combined_data' = <<>>
    /\ selected_pos' = 0
    /\ selected_row' = NoLabel
    /\ selected_value' = 0
    /\ selected_date' = 0
    /\ filtered_data' = <<>>
    /\ bins' = 0
    /\ percentile' = NoPercentile
    /\ percentile_values' = <<>>
    /\ nearest_values_and_dates' = <<>>
    /\ std_dev' = NoStd
    /\ outputs' = {}
    /\ error' = "none"
    /\ slept' = 0
    /\ trace' = <<>>

FnIdle ==
    /\ fn_name = "none"
    /\ fn_data = <<>>
    /\ fn_value = 0
    /\ fn_result = 0

Init ==
    /\ pc = "main"
    /\ refresh_interval = SliderDefault
    /\ FreshRun
    /\ FnIdle

\* ------------------------------------------------------------- actions
\* An uncaught exception: Streamlit shows it and the run ends.
Raise(name, step) ==
    /\ pc' = "crashed"
    /\ error' = name
    /\ outputs' = outputs \cup {"exception"}
    /\ trace' = Append(trace, step)

\* Lines 29-35: title, the refresh slider, the "Fetching" note.
Start ==
    /\ pc = "main"
    /\ \E r \in SliderChoices : refresh_interval' = r
    /\ pc' = "fetch"
    /\ outputs' = outputs \cup {"title", "fetching"}
    /\ UNCHANGED <<data, combined_data, selection_vars, filtered_data, statistics_vars,
                   std_dev, error, slept, trace, fn_vars>>

\* Lines 36-41: pd.read_csv succeeds with some sheet, or raises and main
\* returns after st.error.
Fetch ==
    /\ pc = "fetch"
    /\ \/ /\ \E t \in Tables : data' = t
          /\ pc' = "validate"
          /\ outputs' = outputs \cup {"success"}
          /\ error' = error
       \/ /\ data' = data
          /\ pc' = "returned"
          /\ outputs' = outputs \cup {"error"}
          /\ error' = "fetch"
    /\ trace' = Append(trace, "fetch")
    /\ UNCHANGED <<refresh_interval, combined_data, selection_vars, filtered_data,
                   statistics_vars, std_dev, slept, fn_vars>>

ValidateFallThrough ==
    /\ pc = "validate"
    /\ IF data.hasNetMargin /\ data.hasDate
       THEN UNCHANGED <<outputs, error>>
       ELSE /\ outputs' = outputs \cup {"error"}
            /\ error' = "columns"
    /\ pc' = "preprocess"
    /\ trace' = Append(trace, "validate")
    /\ UNCHANGED <<refresh_interval, data, combined_data, selection_vars, filtered_data,
                   statistics_vars, std_dev, slept, fn_vars>>

\* Lines 44-46: both required columns, or st.error and return.
Validate ==
    /\ pc = "validate"
    /\ IF data.hasNetMargin /\ data.hasDate
       THEN /\ pc' = "preprocess"
            /\ UNCHANGED <<outputs, error>>
       ELSE /\ pc' = "returned"
            /\ outputs' = outputs \cup {"error"}
            /\ error' = "columns"
    /\ trace' = Append(trace, "validate")
    /\ UNCHANGED <<refresh_interval, data, combined_data, selection_vars, filtered_data,
                   statistics_vars, std_dev, slept, fn_vars>>

\* Lines 49-56: coerce both columns (an uncoercible cell raises), sort by
\* Date, build combined_data.
Preprocess ==
    /\ pc = "preprocess"
    /\ IF data.coercible
       THEN /\ \E s \in SortedByDate(data.rows) : combined_data' = s
            /\ pc' = "select"
            /\ trace' = Append(trace, "preprocess")
            /\ UNCHANGED <<outputs, error>>
       ELSE /\ Raise("ValueError", "preprocess")
            /\ UNCHANGED combined_data
    /\ UNCHANGED <<refresh_interval, data, selection_vars, filtered_data, statistics_vars,
                   std_dev, slept, fn_vars>>

\* Lines 57-63: the labels, the selectbox, and the value and date parsed
\* back from the picked label.  With no option the selectbox returns None
\* and None.split raises.
Select ==
    /\ pc = "select"
    /\ IF combined_data = <<>>
       THEN /\ Raise("AttributeError", "select")
            /\ UNCHANGED selection_vars
       ELSE /\ \E i \in 1..Len(combined_data) :
                 LET label == Dropdown(combined_data[i]) IN
                 /\ selected_pos' = i
                 /\ selected_row' = label
                 /\ selected_value' = ParseFloat(label.value)
                 /\ selected_date' = ToDatetime(label.date)
            /\ pc' = "filter"
            /\ outputs' = outputs \cup {"selector"}
            /\ trace' = Append(trace, "select")
            /\ error' = error
    /\ UNCHANGED <<refresh_interval, data, combined_data, filtered_data, statistics_vars,
                   std_dev, slept, fn_vars>>

\* Lines 66-67.
Filter ==
    /\ pc = "filter"
    /\ filtered_data' = SelectSeq(combined_data, LAMBDA row : row.Date <= selected_date)
    /\ pc' = "statistics"
    /\ trace' = Append(trace, "filter")
    /\ UNCHANGED <<refresh_interval, data, combined_data, selection_vars, statistics_vars,
                   std_dev, outputs, error, slept, fn_vars>>

\* Lines 70-88: bins, the percentile of the selected value, the five
\* thresholds, the nearest row of each, and the percentile summary.
Statistics ==
    /\ pc = "statistics"
    /\ LET filtered_net_margin == NetMarginOf(filtered_data)
           pv == [k \in 1..Len(percentiles) |-> np_percentile(filtered_net_margin, percentiles[k])]
       IN  IF BinsOverflow(filtered_net_margin)
           THEN /\ Raise("OverflowError", "statistics")
                /\ UNCHANGED statistics_vars
           ELSE /\ bins' = calculate_bins(filtered_net_margin)
                /\ percentile' = calculate_percentile(selected_value, filtered_net_margin)
                /\ percentile_values' = pv
                /\ IF \E k \in 1..Len(percentiles) : IlocRaises(pv[k], filtered_data)
                   THEN /\ Raise("IndexError", "statistics")
                        /\ UNCHANGED nearest_values_and_dates
                   ELSE /\ nearest_values_and_dates' =
                              [k \in 1..Len(percentiles) |->
                                  find_nearest_value_and_date(pv[k], filtered_data)]
                        /\ pc' = "render"
                        /\ outputs' = outputs \cup {"percentile_summary"}
                        /\ trace' = Append(trace, "statistics")
                        /\ error' = error
    /\ UNCHANGED <<refresh_interval, data, combined_data, selection_vars, filtered_data,
                   std_dev, slept, fn_vars>>

\* Lines 91-117: histogram, mean and std, the fitted curve, the markers,
\* st.pyplot and the three selection lines.  A NaN or zero std only makes
\* numpy warn: the chart is drawn all the same.
Render ==
    /\ pc = "render"
    /\ std_dev' = SeriesStd(NetMarginOf(filtered_data))
    /\ outputs' = outputs \cup {"chart", "selection_summary"}
    /\ pc' = "sleep"
    /\ trace' = Append(trace, "render")
    /\ UNCHANGED <<refresh_interval, data, combined_data, selection_vars, filtered_data,
                   statistics_vars, error, slept, fn_vars>>

\* Lines 120-121.
Sleep ==
    /\ pc = "sleep"
    /\ slept' = refresh_interval
    /\ outputs' = outputs \cup {"auto_refresh_note"}
    /\ pc' = "rerun"
    /\ trace' = Append(trace, "wait")
    /\ UNCHANGED <<refresh_interval, data, combined_data, selection_vars, filtered_data,
                   statistics_vars, std_dev, error, fn_vars>>

RerunReusingData ==
    /\ pc = "rerun"
    /\ pc' = "validate"
    /\ trace' = <<>>
    /\ outputs' = {}
    /\ slept' = 0
    /\ UNCHANGED <<refresh_interval, data, combined_data, selection_vars, filtered_data,
                   statistics_vars, std_dev, error, fn_vars>>

\* Line 122: st.experimental_rerun() starts main() again; no local survives.
Rerun ==
    /\ pc = "rerun"
    /\ pc' = "main"
    /\ NewRun
    /\ UNCHANGED <<refresh_interval, fn_vars>>

\* A run that returned or raised has ended for good: only the user moving
\* a widget (the slider of line 32) makes Streamlit run main() again.
UserRerun ==
    /\ pc \in {"returned", "crashed"}
    /\ pc' = "main"
    /\ NewRun
    /\ UNCHANGED <<refresh_interval, fn_vars>>

Next ==
    \/ Start
    \/ Fetch
    \/ Validate
    \/ Preprocess
    \/ Select
    \/ Filter
    \/ Statistics
    \/ Render
    \/ Sleep
    \/ Rerun
    \/ UserRerun

Spec == Init /\ [][Next]_vars

\* ------------------------------------------- functions on their own
\* Each pure function applied once to inputs drawn from bounded sets.
FnValues == Values \cup {v - 1 : v \in Values} \cup {v + 1 : v \in Values}

FnSeqs ==
    UNION {[1..n -> Values] : n \in 1..MaxLen}
    \cup {[i \in 1..n |-> 4] : n \in 1..MaxN}

FnInit ==
    /\ pc = "main"
    /\ refresh_interval = SliderDefault
    /\ FreshRun
    /\ fn_name = "none"
    /\ fn_data \in FnSeqs
    /\ fn_value \in FnValues
    /\ fn_result = 0

CallCalculateBins ==
    /\ fn_name = "none"
    /\ fn_name' = "calculate_bins"
    /\ fn_result' = calculate_bins(fn_data)
    /\ UNCHANGED <<fn_data, fn_value, pipeline_vars>>

CallCalculatePercentile ==
    /\ fn_name = "none"
    /\ fn_name' = "calculate_percentile"
    /\ fn_result' = calculate_percentile(fn_value, fn_data)
    /\ UNCHANGED <<fn_data, fn_value, pipeline_vars>>

FnNext ==
    \/ CallCalculateBins
    \/ CallCalculatePercentile

FnSpec == FnInit /\ [][FnNext]_vars

\* ---------------------------------------------------------------- claims
FullOrder ==
    <<"fetch", "validate", "preprocess", "select", "filter", "statistics", "render", "wait">>

Rendered == "chart" \in outputs

PartialRender == {"selector", "percentile_summary", "chart", "selection_summary"}

\* The Observation the user picked in the selectbox.
Selected == combined_data[selected_pos]

AfterSelect == pc \in {"filter", "statistics", "render", "sleep", "rerun"}
AfterFilter == pc \in {"statistics", "render", "sleep", "rerun"}
AfterStatistics == pc \in {"render", "sleep", "rerun"}

\* Position (1-based) of the first row of series with the least absolute
\* difference to target, by a scan over all positions.
FirstArgmin(target, series) ==
    CHOOSE i \in 1..Len(series) :
        /\ \A j \in 1..Len(series) : AbsDiff(series[i], target) <= AbsDiff(series[j], target)
        /\ \A j \in 1..Len(series) : AbsDiff(series[j], target) = AbsDiff(series[i], target) => i <= j

\* No two rows of the sheet share a Date: the date-sorted series is unique.
DistinctDates ==
    \A i, j \in 1..Len(combined_data) : i # j => combined_data[i].Date # combined_data[j].Date

\* C1: find_nearest_value_and_date on the FilteredSeries never fails and
\* returns, for each threshold, the (value, date) of the first row of the
\* FilteredSeries that minimizes |value - threshold|.  Stated for the sheets
\* whose dates are all distinct, whatever the order of their rows.
C1_NearestIsFirstMinimizer ==
    DistinctDates =>
        /\ error # "IndexError"
        /\ AfterStatistics =>
              \A k \in 1..Len(percentiles) :
                 LET best == filtered_data[FirstArgmin(percentile_values[k], filtered_data)]
                 IN  nearest_values_and_dates[k] =
                        [NetMargin |-> best.NetMargin, Date |-> best.Date]

\* Where C1 does hold: when every row's index label is its position (the
\* sheet came in date order and the sort kept that order), the row returned
\* is the first minimizer.
NearestRightWhenLabelsArePositions ==
    AfterStatistics /\ (\A i \in 1..Len(combined_data) : combined_data[i].idx = i - 1) =>
        \A k \in 1..Len(percentiles) :
           LET best == filtered_data[FirstArgmin(percentile_values[k], filtered_data)]
           IN  nearest_values_and_dates[k] = [NetMargin |-> best.NetMargin, Date |-> best.Date]

\* C2: an iteration that aborted on a fetch failure or on missing columns
\* still takes the refresh wait: the wait is the step that follows the abort.
C2_AbortStillWaits ==
    error \in {"fetch", "columns"} => ENABLED Sleep

\* C3: a run that reached the render has taken fetch, validate, preprocess,
\* select, filter, statistics, render and wait in that order, has waited
\* refresh_interval seconds (1..60), then restarts main from the fetch with
\* no data kept: any data a run holds was fetched by that run.
C3_RenderWaitRestart ==
    /\ [](/\ pc = "rerun" => /\ trace = FullOrder
                             /\ slept = refresh_interval
                             /\ slept \in SliderMin..SliderMax
          /\ Rendered /\ pc # "rerun" => pc = "sleep" /\ trace = SubSeq(FullOrder, 1, Len(trace))
          /\ data # NoData => trace # <<>> /\ trace[1] = "fetch")
    /\ [][/\ pc = "sleep" => pc' = "rerun"
          /\ pc = "rerun" => pc' = "main" /\ data' = NoData /\ trace' = <<>>
          /\ pc = "main" => pc' = "fetch"]_vars

C3_Witness ==
    /\ pc = "rerun"
    /\ slept = SliderMax
    /\ Len(data.rows) = MaxRows

\* C4: with a FilteredSeries of at most one row the chart is never rendered:
\* a rendered chart has at least two rows behind it and a defined standard
\* deviation.
C4_NoRenderOnSingleRow ==
    Rendered => Len(filtered_data) > 1 /\ ~SeriesStd(NetMarginOf(filtered_data)).nan

\* C5: the FilteredSeries is non-empty, contains the selected Observation
\* and is exactly the rows whose Date is <= the selected Observation's Date.
C5_FilterContainsSelected ==
    AfterFilter =>
        /\ filtered_data # <<>>
        /\ \E i \in 1..Len(filtered_data) : filtered_data[i] = Selected
        /\ filtered_data = SelectSeq(combined_data, LAMBDA row : row.Date <= Selected.Date)

\* C6: calculate_percentile(v, S) is 100 * |{o in S : o <= v}| / |S|, lies
\* in [0, 100] and is 100 when v is the maximum of S.
C6_PercentileRank ==
    fn_name = "calculate_percentile" =>
        LET n == Len(fn_data)
            count == Cardinality({i \in 1..n : fn_data[i] <= fn_value})
        IN  /\ fn_result.den > 0
            /\ fn_result.num * n = 100 * count * fn_result.den
            /\ 0 <= fn_result.num
            /\ fn_result.num <= 100 * fn_result.den
            /\ (\A i \in 1..n : fn_data[i] <= fn_value) /\ (\E i \in 1..n : fn_data[i] = fn_value)
                  => fn_result.num = 100 * fn_result.den

C6_Witness ==
    /\ fn_name = "calculate_percentile"
    /\ Len(fn_data) = MaxLen
    /\ Cardinality({i \in 1..Len(fn_data) : fn_data[i] = fn_value}) >= 2
    /\ \E i \in 1..Len(fn_data) : fn_data[i] < fn_value
    /\ \A i \in 1..Len(fn_data) : fn_data[i] <= fn_value
    /\ fn_result.num = 100 * fn_result.den

\* C7: after a fetch failure or a missing column the run has returned (no
\* exception), has shown an error message and has shown no selector, no
\* percentile summary, no chart and no selection summary.
C7_AbortIsClean ==
    error \in {"fetch", "columns"} =>
        /\ pc = "returned"
        /\ "error" \in outputs
        /\ "exception" \notin outputs
        /\ outputs \cap PartialRender = {}

C7_Witness ==
    /\ error = "columns"
    /\ pc = "returned"
    /\ data.hasNetMargin
    /\ ~data.hasDate

\* C8: the date parsed back from the label is the Observation's Date, and
\* the value parsed back is within 0.005 of the Observation's value.
C8_LabelRoundTrip ==
    AfterSelect =>
        /\ selected_date = Selected.Date
        /\ 2 * Abs(selected_value - Selected.NetMargin) <= UnitsPerCent

\* What the round trip of C8 does keep: the calendar day of the Date, at
\* midnight, and the value to within 0.005.
LabelKeepsDayAndCents ==
    AfterSelect =>
        /\ DayOf(selected_date) = DayOf(Selected.Date)
        /\ selected_date % TicksPerDay = 0
        /\ 2 * Abs(selected_value - Selected.NetMargin) <= UnitsPerCent

\* C9: calculate_bins is ceil(log2(n) + 1): 1 for n = 1, 2 for n = 2, 5 for
\* n = 16, floor(log2(n)) + 2 when n is no power of two, always >= 1 and
\* non-decreasing in n.
C9_SturgesBins ==
    fn_name = "calculate_bins" =>
        LET n == Len(fn_data)
            b == fn_result
            floorlog == CHOOSE k \in 0..n : Pow2(k) <= n /\ n < Pow2(k + 1)
        IN  /\ b >= 1
            /\ Pow2(b - 1) >= n
            /\ b > 1 => Pow2(b - 2) < n
            /\ n = 1 => b = 1
            /\ n = 2 => b = 2
            /\ n = 16 => b = 5
            /\ Pow2(floorlog) # n => b = floorlog + 2
            /\ \A m \in 1..n : calculate_bins(SubSeq(fn_data, 1, m)) <= b

C9_Witness ==
    /\ fn_name = "calculate_bins"
    /\ Len(fn_data) = 16
    /\ fn_result = 5

\* C10: when the FilteredSeries holds the selected Observation, the reported
\* percentile is the rank of that Observation's own value, hence positive and
\* at least 100 / |FilteredSeries|.
C10_SelectedCountsItself ==
    AfterStatistics /\ (\E i \in 1..Len(filtered_data) : filtered_data[i] = Selected) =>
        /\ percentile = calculate_percentile(Selected.NetMargin, NetMarginOf(filtered_data))
        /\ percentile.num > 0
        /\ percentile.num * Len(filtered_data) >= 100 * percentile.den

====
